---- MODULE Spec2Model ----
(***************************************************************************)
(* Model of the Meetup-FastAPI event-registration service                  *)
(* (app/services.py, app/crud.py, app/models.py, app/main.py).             *)
(*                                                                         *)
(* The three tables (users, events, enrollments) are the state.  Every     *)
(* request handler is one action; Spec runs the handlers one after the     *)
(* other, ConcSpec runs enroll_user as the three separate database steps   *)
(* its code performs, interleaved between requests, and CreateConcSpec     *)
(* does the same for the two steps of create_event.  GateSpec has the      *)
(* endpoints that test the caller's role; SlotSpec remembers the last      *)
(* enroll or unenroll call, for properties of two calls in a row.          *)
(* TokenSpec has login and the resolution of access tokens.                *)
(***************************************************************************)
EXTENDS Integers, FiniteSets, Sequences

\* ------------------------------------------------------------------ bounds
MaxUserId == 2      \* user ids handed out are 1..MaxUserId
MaxEvents == 2      \* events created are 1..MaxEvents
MaxPax    == 2      \* max_pax of an event payload is 0..MaxPax
MaxTime   == 2      \* datetime.now() ranges over 1..MaxTime
NumReqs   == 2      \* enroll requests in flight at once (ConcSpec)
MaxTokens == 2      \* access tokens issued (TokenSpec)

\* ------------------------------------------------------------------ inputs
\* schemas.UserCreate payloads of POST /signup/ (name and password are read by
\* no rule).  Two emails, so that a second signup can repeat an email.
UserCreate ==
    { [email |-> "a@example.com", role |-> "admin"],
      [email |-> "b@example.com", role |-> "event_organizer"],
      [email |-> "b@example.com", role |-> "participant"] }

\* The (venue, room, date) of event payloads: the first one, and one that
\* differs from it in the date only, in the room only, in the venue only.
Slots ==
    { <<"Main Hall", "Room A", 1>>, <<"Main Hall", "Room A", 2>>,
      <<"Main Hall", "Room B", 1>>, <<"Lab", "Room A", 1>> }

UserIds  == 1..MaxUserId
EventIds == 1..MaxEvents
ReqIds   == 1..NumReqs

\* Enrollment.user_id after the owning user was deleted (SQL NULL).
NoUser == 0
\* What a query's .first() returns when no row matches.
None == [id |-> 0]

\* schemas.EventCreate: the fields update_event overwrites.  name, speaker and
\* description are free text no rule reads; they are left out.
EventCreate ==
    { [venue |-> s[1], room |-> s[2], date |-> s[3], max_pax |-> m] :
        s \in Slots, m \in 0..MaxPax }

VARIABLES
    users,        \* table users: set of [id, email, role]
    events,       \* table events: sequence of rows, Event.id = index
    enrollments,  \* table enrollments: <<user_id, event_id>> -> number of rows
    now,          \* datetime.now()
    result,       \* [op, out]: the last service call and what it returned/raised
    reqs,         \* ConcSpec, CreateConcSpec: the requests in flight
    last,         \* SlotSpec: the last successful enroll or unenroll call
                  \* and the enrollments table it found
    tokens        \* TokenSpec: the access tokens issued by login_user

vars == <<users, events, enrollments, now, result, reqs, last, tokens>>

\* ------------------------------------------------------------------ helpers
EnrollKeys == (UserIds \cup {NoUser}) \X EventIds

RECURSIVE SumOver(_, _)
SumOver(f, S) ==
    IF S = {} THEN 0
    ELSE LET x == CHOOSE y \in S : TRUE IN f[x] + SumOver(f, S \ {x})

SetMax(S) == IF S = {} THEN 0 ELSE CHOOSE x \in S : \A y \in S : y <= x

\* len(event.participants): rows of enrollments whose event_id is the event's.
participants(event_id) ==
    SumOver(enrollments, {k \in EnrollKeys : k[2] = event_id})

\* db.query(Enrollment).filter(Enrollment.user_id == user_id).all(), as the
\* set of event ids of the rows.
user_events(user_id) ==
    {e \in EventIds : enrollments[<<user_id, e>>] > 0}

Out(op, out) == [op |-> op, out |-> out]

\* ------------------------------------------------------------------ crud.py
get_user_by_email(email) ==
    IF \E u \in users : u.email = email
    THEN CHOOSE u \in users : u.email = email
    ELSE None

get_user_by_id(user_id) ==
    IF \E u \in users : u.id = user_id
    THEN CHOOSE u \in users : u.id = user_id
    ELSE None

\* The INTEGER PRIMARY KEY a new users row gets: largest id in the table + 1.
next_user_id == SetMax({u.id : u \in users}) + 1

create_user(user) ==
    users' = users \cup
        {[id |-> next_user_id, email |-> user.email, role |-> user.role]}

\* db.query(Event).filter(Event.id == event_id).first()
get_event(event_id) ==
    IF event_id \in 1..Len(events) THEN events[event_id] ELSE None

get_event_by_id(event_id) == get_event(event_id)

\* Event(**event.model_dump(), organizer_id=organizer_id); db.add; db.commit
crud_create_event(event_data, organizer_id) ==
    events' = Append(events,
        [id           |-> Len(events) + 1,
         date         |-> event_data.date,
         venue        |-> event_data.venue,
         room         |-> event_data.room,
         max_pax      |-> event_data.max_pax,
         organizer_id |-> organizer_id])

\* Enrollment(user_id=user_id, event_id=event_id); db.add; db.commit
enroll_user_in_event(user_id, event_id) ==
    enrollments' = [enrollments EXCEPT ![<<user_id, event_id>>] = @ + 1]

\* setattr(event, key, value) for every field of the payload; db.commit
update_crud_event(event, event_data) ==
    events' = [events EXCEPT ![event.id] =
        [id           |-> event.id,
         date         |-> event_data.date,
         venue        |-> event_data.venue,
         room         |-> event_data.room,
         max_pax      |-> event_data.max_pax,
         organizer_id |-> event.organizer_id]]

\* db.delete(user): the row goes, and the rows of User.events (a relationship
\* with no delete cascade) are kept with user_id set to NULL.  Returns the
\* row found (None when there is none); the caller reads the return value.
delete_user(user_id) ==
    LET user == get_user_by_id(user_id) IN
    IF user.id # 0
    THEN /\ users' = users \ {user}
         /\ enrollments' =
                [k \in EnrollKeys |->
                    IF k[1] = user_id THEN 0
                    ELSE IF k[1] = NoUser
                         THEN enrollments[k] + enrollments[<<user_id, k[2]>>]
                         ELSE enrollments[k]]
    ELSE UNCHANGED <<users, enrollments>>

\* The first row matching both ids is deleted; TRUE iff there was one.
has_enrollment(event_id, user_id) ==
    event_id \in EventIds /\ enrollments[<<user_id, event_id>>] > 0

\* delete_enrollment with the filter on Enrollment.user_id left out: the
\* first row of the event goes, whoever holds it.
delete_enrollment_by_event(event_id, user_id) ==
    LET rows == {k \in EnrollKeys : k[2] = event_id /\ enrollments[k] > 0} IN
    IF rows # {}
    THEN LET first == CHOOSE k \in rows : \A q \in rows : k[1] <= q[1] IN
         enrollments' = [enrollments EXCEPT ![first] = @ - 1]
    ELSE UNCHANGED enrollments

\* delete_enrollment without db.delete and db.commit: the row is found and
\* returned, and stays in the table.
delete_enrollment_uncommitted(event_id, user_id) == UNCHANGED enrollments

delete_enrollment(event_id, user_id) ==
    IF has_enrollment(event_id, user_id)
    THEN enrollments' = [enrollments EXCEPT ![<<user_id, event_id>>] = @ - 1]
    ELSE UNCHANGED enrollments

\* ------------------------------------------------------------------ services.py
\* check_event_capacity with <= for <: one participant too many is admitted.
check_event_capacity_inclusive(event) ==
    participants(event.id) <= event.max_pax

check_event_capacity(event) == participants(event.id) < event.max_pax

\* check_user_conflict returning from inside the loop on its first row: only
\* the user's first enrollment is compared.
check_user_conflict_first_row(user_id, event_date) ==
    LET rows == user_events(user_id) IN
    \/ rows = {}
    \/ events[CHOOSE e \in rows : \A f \in rows : e <= f].date # event_date

\* TRUE when the user has no enrollment in an event of that date.
check_user_conflict(user_id, event_date) ==
    ~ \E e \in user_events(user_id) : events[e].date = event_date

\* get_event returns None for a missing id and check_event_capacity then reads
\* None.participants: AttributeError, raised out of enroll_user.
enroll_user(user_id, event_id) ==
    LET event == get_event(event_id) IN
    IF event.id = 0
    THEN /\ result' = Out("enroll_user", "AttributeError")
         /\ UNCHANGED enrollments
    ELSE IF ~ check_event_capacity(event)
    THEN /\ result' = Out("enroll_user", "None")
         /\ UNCHANGED enrollments
    ELSE IF ~ check_user_conflict(user_id, event.date)
    THEN /\ result' = Out("enroll_user", "None")
         /\ UNCHANGED enrollments
    ELSE /\ enroll_user_in_event(user_id, event_id)
         /\ result' = Out("enroll_user", "Enrollment")

\* existing_events with the filter on Event.room left out.
existing_events_any_room(event_data) ==
    {i \in 1..Len(events) :
        /\ events[i].venue = event_data.venue
        /\ events[i].date = event_data.date}

existing_events(event_data) ==
    {i \in 1..Len(events) :
        /\ events[i].venue = event_data.venue
        /\ events[i].room = event_data.room
        /\ events[i].date = event_data.date}

create_event(event_data, organizer_id) ==
    IF existing_events(event_data) # {}
    THEN /\ result' = Out("create_event", "None")
         /\ UNCHANGED events
    ELSE /\ crud_create_event(event_data, organizer_id)
         /\ result' = Out("create_event", "Event")

\* check_user_exists with the query filtering on User.name: no name is an
\* email address, and no row is found.
check_user_exists_by_name(email) == FALSE

check_user_exists(email) == get_user_by_email(email).id # 0

register_user(user_data) == create_user(user_data)

\* update_forbidden with "and" for "or": a caller who is not the organizer
\* is refused only once the date has passed.
update_forbidden_and(event, current_user) ==
    /\ current_user.role # "admin"
    /\ (current_user.id # event.organizer_id /\ event.date < now)

\* role != "admin" and (id != organizer_id or date < now): not authorized
update_forbidden(event, current_user) ==
    /\ current_user.role # "admin"
    /\ (current_user.id # event.organizer_id \/ event.date < now)

update_event(event_id, event_data, current_user) ==
    LET event == get_event_by_id(event_id) IN
    IF event.id = 0
    THEN /\ result' = Out("update_event", "ValueError")
         /\ UNCHANGED events
    ELSE IF update_forbidden(event, current_user)
    THEN /\ result' = Out("update_event", "PermissionError")
         /\ UNCHANGED events
    ELSE /\ update_crud_event(event, event_data)
         /\ result' = Out("update_event", "Event")

\* delete_user runs first; the role is checked on the row it returned.
remove_event_organizer(organizer_id) ==
    LET organizer == get_user_by_id(organizer_id) IN
    /\ delete_user(organizer_id)
    /\ IF organizer.id = 0 \/ organizer.role # "event_organizer"
       THEN result' = Out("remove_event_organizer", "ValueError")
       ELSE result' = Out("remove_event_organizer", "User")

unenroll_from_event(event_id, user_id) ==
    /\ delete_enrollment(event_id, user_id)
    /\ IF has_enrollment(event_id, user_id)
       THEN result' = Out("unenroll_from_event", "Enrollment")
       ELSE result' = Out("unenroll_from_event", "ValueError")

\* ------------------------------------------------------------------ main.py
\* An event id that matches no row, whatever the table holds.
RequestEventIds == 1..(MaxEvents + 1)

Idle == [pc |-> "idle", user_id |-> 0, event_id |-> 0, date |-> 0]

\* No enroll or unenroll call has succeeded last.
NoCall ==
    [op |-> "none", user_id |-> 0, event_id |-> 0,
     before |-> [k \in EnrollKeys |-> 0]]

Init ==
    /\ users = {}
    /\ events = <<>>
    /\ enrollments = [k \in EnrollKeys |-> 0]
    /\ now = 1
    /\ result = Out("init", "none")
    /\ reqs = [r \in ReqIds |-> Idle]
    /\ last = NoCall
    /\ tokens = {}

\* main.signup_user: 400 "Email already registered" when the email is
\* taken, else the user is registered.
main_signup_user(user) ==
    IF check_user_exists(user.email)
    THEN /\ result' = Out("signup_user", "HTTP400")
         /\ UNCHANGED users
    ELSE /\ register_user(user)
         /\ result' = Out("signup_user", "User")

\* POST /signup/
SignupUser ==
    \E user \in UserCreate :
        /\ check_user_exists(user.email) \/ next_user_id <= MaxUserId
        /\ main_signup_user(user)
        /\ UNCHANGED <<events, enrollments, now, reqs, last, tokens>>

\* services.create_event, called with a payload and an organizer id as
\* tests/test_enrollments.py calls it.
CreateEvent(payloads, organizers) ==
    \E event_data \in payloads, organizer_id \in organizers :
        /\ existing_events(event_data) # {} \/ Len(events) < MaxEvents
        /\ create_event(event_data, organizer_id)
        /\ UNCHANGED <<users, enrollments, now, reqs, last, tokens>>

\* POST /events/{event_id}/enroll/
EnrollUserInEvent ==
    \E current_user \in users, event_id \in RequestEventIds :
        /\ enroll_user(current_user.id, event_id)
        /\ UNCHANGED <<users, events, now, reqs, last, tokens>>

\* PUT /events/{event_id}
UpdateEventDetails(payloads) ==
    \E current_user \in users, event_id \in RequestEventIds,
       event_data \in payloads :
        /\ update_event(event_id, event_data, current_user)
        /\ UNCHANGED <<users, enrollments, now, reqs, last, tokens>>

\* main.remove_event_organizer with the role test taken out: the service is
\* called for every caller.
main_remove_event_organizer_ungated(organizer_id, current_user) ==
    remove_event_organizer(organizer_id)

\* main.remove_event_organizer: 403 unless the caller is an admin, then the
\* service call (its ValueError is answered as 404).
main_remove_event_organizer(organizer_id, current_user) ==
    IF current_user.role # "admin"
    THEN /\ result' = Out("remove_event_organizer", "HTTP403")
         /\ UNCHANGED <<users, enrollments>>
    ELSE remove_event_organizer(organizer_id)

\* DELETE /admin/organizers/{organizer_id}
RemoveEventOrganizer ==
    \E current_user \in users, organizer_id \in UserIds :
        /\ main_remove_event_organizer(organizer_id, current_user)
        /\ UNCHANGED <<events, now, reqs, last, tokens>>

\* main.create_event: 403 unless the caller is an admin or an event
\* organizer, then service.admin_create_event(...).  app.services defines and
\* imports no admin_create_event: the attribute lookup raises AttributeError
\* before anything is stored.
main_create_event(event, current_user) ==
    IF current_user.role \notin {"admin", "event_organizer"}
    THEN result' = Out("main.create_event", "HTTP403")
    ELSE result' = Out("main.create_event", "AttributeError")

\* POST /events/
MainCreateEvent(payloads) ==
    \E current_user \in users, event \in payloads :
        /\ main_create_event(event, current_user)
        /\ UNCHANGED <<users, events, enrollments, now, reqs, last, tokens>>

\* main.list_events: 403 unless the caller is an admin, then
\* services.list_all_events, which reads the events table.
main_list_events(current_user) ==
    IF current_user.role # "admin"
    THEN result' = Out("list_events", "HTTP403")
    ELSE result' = Out("list_events", "Events")

\* GET /events/
ListEvents ==
    \E current_user \in users :
        /\ main_list_events(current_user)
        /\ UNCHANGED <<users, events, enrollments, now, reqs, last, tokens>>

\* main.list_all_users: 403 unless the caller is an admin, then
\* crud.get_all_users (imported into app.services), which reads the users
\* table.
main_list_all_users(current_user) ==
    IF current_user.role # "admin"
    THEN result' = Out("list_all_users", "HTTP403")
    ELSE result' = Out("list_all_users", "Users")

\* GET /admin/users/
ListAllUsers ==
    \E current_user \in users :
        /\ main_list_all_users(current_user)
        /\ UNCHANGED <<users, events, enrollments, now, reqs, last, tokens>>

\* DELETE /events/{event_id}/unenroll
UnenrollUserFromEvent ==
    \E current_user \in users, event_id \in RequestEventIds :
        /\ unenroll_from_event(event_id, current_user.id)
        /\ UNCHANGED <<users, events, now, reqs, last, tokens>>

\* Time passes: what datetime.now() returns grows.
Tick ==
    /\ now < MaxTime
    /\ now' = now + 1
    /\ UNCHANGED <<users, events, enrollments, result, reqs, last, tokens>>

\* The requests that change users, events and enrollments, one at a time.
\* Enrollment reads an event's date and max_pax only: the payloads are the
\* ones of two rooms of one venue, the events are organized by user 1.
EnrollPayloads == {d \in EventCreate : d.venue = "Main Hall"}

Next ==
    \/ SignupUser
    \/ CreateEvent(EnrollPayloads, {1})
    \/ EnrollUserInEvent
    \/ UpdateEventDetails(EnrollPayloads)
    \/ UnenrollUserFromEvent

Spec == Init /\ [][Next]_vars

\* The requests around the removal of accounts: users sign up and enroll,
\* an admin removes accounts.
AdminNext ==
    \/ SignupUser
    \/ CreateEvent(EnrollPayloads, {1})
    \/ EnrollUserInEvent
    \/ RemoveEventOrganizer

AdminSpec == Init /\ [][AdminNext]_vars

\* The requests on events alone, while the clock advances.  The rules on
\* events read the slot, the organizer and the clock; the payloads are the
\* ones of every slot with max_pax 0 or 1.
EventPayloads == {d \in EventCreate : d.max_pax <= 1}

EventNext ==
    \/ SignupUser
    \/ CreateEvent(EventPayloads, UserIds)
    \/ UpdateEventDetails(EventPayloads)
    \/ Tick

EventSpec == Init /\ [][EventNext]_vars

\* The endpoints that test the caller's role, next to signup and to
\* services.create_event (which fills the events table).  The role tests read
\* the caller only; the payloads are the ones of every slot with max_pax 1.
GatePayloads == {d \in EventCreate : d.max_pax = 1}

GateNext ==
    \/ SignupUser
    \/ CreateEvent(GatePayloads, UserIds)
    \/ MainCreateEvent(GatePayloads)
    \/ ListEvents
    \/ ListAllUsers
    \/ RemoveEventOrganizer

GateSpec == Init /\ [][GateNext]_vars

\* ------------------------------------------------------------------ concurrent requests
\* Each request has its own session; enroll_user issues its queries and its
\* insert one after the other, and nothing keeps another request's statements
\* from running in between (no lock, no constraint on the enrollments table).

\* Tables the sequential requests leave behind: two signed-up users and one
\* or two events created by user 1 in distinct slots.
ConcUsers ==
    { [id |-> 1, email |-> "a@example.com", role |-> "admin"],
      [id |-> 2, email |-> "b@example.com", role |-> "participant"] }

EventRow(id, event_data, organizer_id) ==
    [id |-> id, date |-> event_data.date, venue |-> event_data.venue,
     room |-> event_data.room, max_pax |-> event_data.max_pax,
     organizer_id |-> organizer_id]

ConcEvents ==
    { <<EventRow(1, d, 1)>> : d \in EventCreate } \cup
    { <<EventRow(1, d[1], 1), EventRow(2, d[2], 1)>> :
        d \in { p \in EventCreate \X EventCreate :
                    <<p[1].venue, p[1].room, p[1].date>> #
                    <<p[2].venue, p[2].room, p[2].date>> } }

ConcInit ==
    /\ users = ConcUsers
    /\ events \in ConcEvents
    /\ enrollments = [k \in EnrollKeys |-> 0]
    /\ now = 1
    /\ result = Out("init", "none")
    /\ reqs = [r \in ReqIds |-> Idle]
    /\ last = NoCall
    /\ tokens = {}

\* enroll_user, first statements: get_event, then check_event_capacity on the
\* row and on the participants loaded at that moment.
EnrollReadEvent(r) ==
    /\ reqs[r].pc = "idle"
    /\ \E current_user \in users, event_id \in RequestEventIds :
          LET event == get_event(event_id) IN
          IF event.id = 0
          THEN /\ result' = Out("enroll_user", "AttributeError")
               /\ UNCHANGED reqs
          ELSE IF ~ check_event_capacity(event)
          THEN /\ result' = Out("enroll_user", "None")
               /\ UNCHANGED reqs
          ELSE /\ reqs' = [reqs EXCEPT ![r] =
                              [pc |-> "capacity_ok", user_id |-> current_user.id,
                               event_id |-> event_id, date |-> event.date]]
               /\ UNCHANGED result
    /\ UNCHANGED <<users, events, enrollments, now, last, tokens>>

\* EnrollReadUser with the "not" of "if not check_user_conflict" dropped: a
\* request in conflict goes on to insert, one without conflict is rejected.
EnrollReadUser_inverted(r) ==
    /\ reqs[r].pc = "capacity_ok"
    /\ IF check_user_conflict(reqs[r].user_id, reqs[r].date)
       THEN /\ result' = Out("enroll_user", "None")
            /\ reqs' = [reqs EXCEPT ![r] = Idle]
       ELSE /\ reqs' = [reqs EXCEPT ![r].pc = "conflict_ok"]
            /\ UNCHANGED result
    /\ UNCHANGED <<users, events, enrollments, now, last, tokens>>

\* enroll_user, next statement: check_user_conflict queries the user's rows.
EnrollReadUser(r) ==
    /\ reqs[r].pc = "capacity_ok"
    /\ IF ~ check_user_conflict(reqs[r].user_id, reqs[r].date)
       THEN /\ result' = Out("enroll_user", "None")
            /\ reqs' = [reqs EXCEPT ![r] = Idle]
       ELSE /\ reqs' = [reqs EXCEPT ![r].pc = "conflict_ok"]
            /\ UNCHANGED result
    /\ UNCHANGED <<users, events, enrollments, now, last, tokens>>

\* enroll_user, last statement: enroll_user_in_event inserts and commits.
EnrollInsert(r) ==
    /\ reqs[r].pc = "conflict_ok"
    /\ enroll_user_in_event(reqs[r].user_id, reqs[r].event_id)
    /\ result' = Out("enroll_user", "Enrollment")
    /\ reqs' = [reqs EXCEPT ![r] = Idle]
    /\ UNCHANGED <<users, events, now, last, tokens>>

ConcNext ==
    \E r \in ReqIds :
        \/ EnrollReadEvent(r)
        \/ EnrollReadUser(r)
        \/ EnrollInsert(r)

ConcSpec == ConcInit /\ [][ConcNext]_vars

\* ------------------------------------------------------------------ concurrent create_event
\* services.create_event issues its conflict query and, through
\* crud.create_event, its insert one after the other; the events table has no
\* unique constraint on (venue, room, date) and nothing keeps another
\* request's statements from running in between.  The requests start on the
\* tables right after two signups, as organizer 1.

\* create_event, first statement: the query for an event in the payload's
\* venue, room and date; None is returned when there is one.  (A request
\* that will insert is started only while the table has room for it.)
CreateEventQuery(r) ==
    /\ reqs[r].pc = "idle"
    /\ \E event_data \in EventPayloads :
          IF existing_events(event_data) # {}
          THEN /\ result' = Out("create_event", "None")
               /\ UNCHANGED reqs
          ELSE /\ Len(events)
                    + Cardinality({q \in ReqIds : reqs[q].pc = "no_conflict"})
                    < MaxEvents
               /\ reqs' = [reqs EXCEPT ![r] =
                              [pc |-> "no_conflict", user_id |-> 1,
                               event_id |-> 0, date |-> event_data.date,
                               event_data |-> event_data]]
               /\ UNCHANGED result
    /\ UNCHANGED <<users, events, enrollments, now, last, tokens>>

\* create_event, last statement: crud.create_event inserts and commits.
CreateEventInsert(r) ==
    /\ reqs[r].pc = "no_conflict"
    /\ crud_create_event(reqs[r].event_data, reqs[r].user_id)
    /\ result' = Out("create_event", "Event")
    /\ reqs' = [reqs EXCEPT ![r] = Idle]
    /\ UNCHANGED <<users, enrollments, now, last, tokens>>

CreateConcInit ==
    /\ users = ConcUsers
    /\ events = <<>>
    /\ enrollments = [k \in EnrollKeys |-> 0]
    /\ now = 1
    /\ result = Out("init", "none")
    /\ reqs = [r \in ReqIds |-> Idle]
    /\ last = NoCall
    /\ tokens = {}

CreateConcNext ==
    \E r \in ReqIds :
        \/ CreateEventQuery(r)
        \/ CreateEventInsert(r)

CreateConcSpec == CreateConcInit /\ [][CreateConcNext]_vars

\* ------------------------------------------------------------------ access tokens
\* login_user issues a token whose payload is the user's email ("sub") and an
\* expiry; get_current_user decodes a token and looks the email up.  An
\* element of tokens is a token together with what the token itself does
\* not carry: the id of the account it was issued to, and whether that
\* account has been deleted since.

\* auth.ACCESS_TOKEN_EXPIRE_MINUTES, with one unit of now for its 300 minutes.
ACCESS_TOKEN_EXPIRE_MINUTES == 1

\* jwt.encode of the data and of "exp": now + the expiry time.
create_access_token(data) ==
    [sub |-> data.sub, exp |-> now + ACCESS_TOKEN_EXPIRE_MINUTES]

\* verify_password compares the form's password with the stored hash; the
\* model takes whether they match as an input.
authenticate_user(email, password_matches) ==
    LET user == get_user_by_email(email) IN
    IF user.id # 0 /\ password_matches THEN user ELSE None

get_user(email) == get_user_by_email(email)

\* jwt.decode raises JWTError for an expired token (401); else the user
\* with the email of "sub", None (401 "User not found") when there is none.
get_current_user(token) ==
    IF token.exp < now THEN None ELSE get_user(token.sub)

\* main.login_user: 400 "Invalid credentials" unless authenticate_user finds
\* the user, then a token for user.email.
main_login_user(email, password_matches) ==
    LET user == authenticate_user(email, password_matches) IN
    IF user.id = 0
    THEN /\ result' = Out("login_user", "HTTP400")
         /\ UNCHANGED tokens
    ELSE /\ tokens' = tokens \cup
                {[token |-> create_access_token([sub |-> user.email]),
                  account |-> user.id, deleted |-> FALSE]}
         /\ result' = Out("login_user", "Token")

\* POST /token/
LoginUser ==
    \E email \in {user.email : user \in UserCreate},
       password_matches \in BOOLEAN :
        /\ Cardinality(tokens) < MaxTokens
        /\ main_login_user(email, password_matches)
        /\ UNCHANGED <<users, events, enrollments, now, reqs, last>>

\* Depends(get_current_user) of a request: the user, or 401.
main_get_current_user(token) ==
    result' = Out("get_current_user",
                  IF get_current_user(token).id = 0 THEN "HTTP401" ELSE "User")

\* Any request that sends a token.
GetCurrentUser ==
    \E t \in tokens :
        /\ main_get_current_user(t.token)
        /\ UNCHANGED <<users, events, enrollments, now, reqs, last, tokens>>

\* DELETE /admin/organizers/{organizer_id}, the caller being the user the
\* request's token resolves to.  The tokens of a deleted account are marked.
RemoveEventOrganizerByToken ==
    \E t \in tokens, organizer_id \in UserIds :
        LET current_user == get_current_user(t.token) IN
        /\ current_user.id # 0
        /\ main_remove_event_organizer(organizer_id, current_user)
        /\ tokens' =
              {[x EXCEPT !.deleted =
                    @ \/ x.account \in {u.id : u \in users \ users'}] :
                 x \in tokens}
        /\ UNCHANGED <<events, now, reqs, last>>

TokenNext ==
    \/ SignupUser
    \/ LoginUser
    \/ GetCurrentUser
    \/ RemoveEventOrganizerByToken
    \/ Tick

TokenSpec == Init /\ [][TokenNext]_vars

\* ------------------------------------------------------------------ enroll, then unenroll
\* The enroll and unenroll endpoints called one after the other, as
\* tests/test_enrollments.py does, on the tables of ConcInit.  last keeps
\* what the last call was, when it succeeded, and the enrollments table it
\* found.
EnrollUserInEventAfter ==
    \E current_user \in users, event_id \in RequestEventIds :
        /\ enroll_user(current_user.id, event_id)
        /\ last' = IF result'.out = "Enrollment"
                   THEN [op |-> "enroll_user", user_id |-> current_user.id,
                         event_id |-> event_id, before |-> enrollments]
                   ELSE NoCall
        /\ UNCHANGED <<users, events, now, reqs, tokens>>

UnenrollUserFromEventAfter ==
    \E current_user \in users, event_id \in RequestEventIds :
        /\ unenroll_from_event(event_id, current_user.id)
        /\ last' = IF result'.out = "Enrollment"
                   THEN [op |-> "unenroll_from_event",
                         user_id |-> current_user.id,
                         event_id |-> event_id, before |-> enrollments]
                   ELSE NoCall
        /\ UNCHANGED <<users, events, now, reqs, tokens>>

SlotNext ==
    \/ EnrollUserInEventAfter
    \/ UnenrollUserFromEventAfter

SlotSpec == ConcInit /\ [][SlotNext]_vars

\* ------------------------------------------------------------------ properties
StoredEventIds == 1..Len(events)

\* The Enrollment rows of an event, one element per row.
EnrollmentRows(event_id) ==
    UNION { {<<k[1], n>> : n \in 1..enrollments[k]} :
                k \in {q \in EnrollKeys : q[2] = event_id} }

EnrollmentCount(event_id) == Cardinality(EnrollmentRows(event_id))

SameSlot(a, b) == a.venue = b.venue /\ a.room = b.room /\ a.date = b.date

\* C1: with enroll_user requests interleaved step by step, every event has at
\* most max_pax Enrollment rows in every reachable state.
C1_CapacityUnderConcurrency ==
    \A e \in StoredEventIds : EnrollmentCount(e) <= events[e].max_pax

\* C2: after any sequence of non-overlapping operations, update_event with a
\* new max_pax included, no event has more Enrollment rows than its current
\* max_pax.
C2_CapacityAllOperations ==
    ~ \E e \in StoredEventIds : events[e].max_pax < EnrollmentCount(e)

\* C3: after any sequence of non-overlapping create, enroll, unenroll and
\* update operations, no user holds two Enrollment rows whose events have the
\* same date (two rows of one event, or rows of two events of equal date).
C3_NoDoubleBooking ==
    \A u \in UserIds :
        /\ \A e \in StoredEventIds : enrollments[<<u, e>>] <= 1
        /\ \A e1, e2 \in StoredEventIds :
              (e1 # e2 /\ enrollments[<<u, e1>>] > 0 /\ enrollments[<<u, e2>>] > 0)
                  => events[e1].date # events[e2].date

\* C4: after any sequence of non-overlapping create_event and update_event
\* operations, no two stored events have the same (venue, room, date).
C4_VenueRoomDateUnique ==
    \A e1, e2 \in StoredEventIds :
        e1 # e2 => ~ SameSlot(events[e1], events[e2])

\* C5: an enroll_user call for a (user, event) pair that already has an
\* Enrollment row is rejected and adds nothing, and no (user, event) pair
\* ever has more than one row.
C5_NoDuplicateEnrollment ==
    [][ /\ result'.op = "enroll_user" =>
              \A u \in UserIds, e \in EventIds :
                (enrollments[<<u, e>>] > 0 /\ enroll_user(u, e))
                    => (result'.out = "None" /\ enrollments' = enrollments)
        /\ \A u \in UserIds, e \in EventIds : enrollments'[<<u, e>>] <= 1
      ]_vars

\* A second enroll_user of an enrolled user in the same event, which still
\* has room, was rejected.
C5_Witness ==
    /\ result = Out("enroll_user", "None")
    /\ \E u \in users, e \in StoredEventIds :
          /\ enrollments[<<u.id, e>>] = 1
          /\ EnrollmentCount(e) < events[e].max_pax
          /\ \A e2 \in StoredEventIds : e2 # e => enrollments[<<u.id, e2>>] = 0
          /\ \A u2 \in users, e2 \in StoredEventIds :
                (u2 # u /\ enrollments[<<u2.id, e2>>] = 0)
                    => EnrollmentCount(e2) < events[e2].max_pax

\* C6: create_event with the (venue, room, date) of a stored event returns
\* None and leaves the events table as it was; otherwise it appends exactly
\* one event, with the payload's fields and the given organizer_id.
C6_CreateEventConflict ==
    [][ result'.op = "create_event" =>
          \A d \in EventCreate, o \in UserIds :
            create_event(d, o) =>
                IF \E e \in StoredEventIds : SameSlot(events[e], d)
                THEN result'.out = "None" /\ events' = events
                ELSE /\ result'.out = "Event"
                     /\ Len(events') = Len(events) + 1
                     /\ SubSeq(events', 1, Len(events)) = events
                     /\ LET new == events'[Len(events')] IN
                            /\ new.organizer_id = o
                            /\ SameSlot(new, d)
                            /\ new.max_pax = d.max_pax
      ]_vars

\* create_event was rejected although the payload shares venue and date, or
\* venue and room, with no more than the event it conflicts with.
C6_Witness ==
    /\ result = Out("create_event", "None")
    /\ Len(events) = 2
    /\ events[1].venue = events[2].venue
    /\ events[1].date = events[2].date
    /\ events[1].room # events[2].room

\* C7: update_event of a missing event is NotFound (ValueError); by a caller
\* who is neither admin nor the organizer it is Forbidden (PermissionError);
\* by the organizer once the date has passed it is Forbidden; by an admin it
\* succeeds whatever the date and the organizer; a Forbidden update leaves
\* the events table unchanged.
C7_UpdateAuthorization ==
    [][ result'.op = "update_event" =>
          \A u \in users, e \in RequestEventIds, d \in EventCreate :
            update_event(e, d, u) =>
                IF e \notin StoredEventIds
                THEN result'.out = "ValueError" /\ events' = events
                ELSE /\ (u.role # "admin" /\ u.id # events[e].organizer_id)
                          => result'.out = "PermissionError"
                     /\ (u.role # "admin" /\ u.id = events[e].organizer_id
                            /\ events[e].date < now)
                          => result'.out = "PermissionError"
                     /\ u.role = "admin"
                          => /\ result'.out = "Event"
                             /\ SameSlot(events'[e], d)
                             /\ events'[e].max_pax = d.max_pax
                     /\ result'.out = "PermissionError" => events' = events
      ]_vars

\* The organizer's update of an own event whose date has passed was refused.
C7_Witness ==
    /\ result = Out("update_event", "PermissionError")
    /\ \E u \in users :
          /\ u.role # "admin"
          /\ \A e \in StoredEventIds :
                events[e].organizer_id = u.id /\ events[e].date < now
          /\ Len(events) >= 1
          /\ \A v \in users : v = u

\* The user holds an Enrollment row in some event of that date.
HoldsDate(user_id, date) ==
    \E e \in StoredEventIds :
        enrollments[<<user_id, e>>] > 0 /\ events[e].date = date

\* C8: for a stored event and any max_pax, 0 included, enroll_user(user,
\* event) returns an Enrollment and adds exactly one row for (user, event)
\* if and only if the event has fewer rows than max_pax and the user holds no
\* row in an event of the same date; otherwise it returns None and the
\* enrollments are unchanged.
C8_EnrollmentDecision ==
    [][ result'.op = "enroll_user" =>
          \A u \in UserIds, e \in StoredEventIds :
            enroll_user(u, e) =>
                IF /\ EnrollmentCount(e) < events[e].max_pax
                   /\ ~ HoldsDate(u, events[e].date)
                THEN /\ result'.out = "Enrollment"
                     /\ enrollments'[<<u, e>>] = enrollments[<<u, e>>] + 1
                     /\ \A k \in EnrollKeys \ {<<u, e>>} :
                            enrollments'[k] = enrollments[k]
                ELSE /\ result'.out = "None"
                     /\ enrollments' = enrollments
      ]_vars

\* An enroll_user of the only user was refused although both events have
\* room: the events have the same date and the user holds a row in one.
C8_Witness ==
    /\ result = Out("enroll_user", "None")
    /\ Len(events) = 2
    /\ events[1].date = events[2].date
    /\ events[1].max_pax = 2 /\ EnrollmentCount(1) = 1
    /\ events[2].max_pax = 2 /\ EnrollmentCount(2) = 0
    /\ Cardinality(users) = 1

\* C9: enroll_user with an event id that matches no stored event is a
\* returned rejection, not a raised error, and no Enrollment row is created.
C9_EnrollMissingEvent ==
    [][ result'.op = "enroll_user" =>
          \A u \in UserIds, e \in RequestEventIds \ StoredEventIds :
            enroll_user(u, e) =>
                /\ result'.out \in {"None", "EventNotFound"}
                /\ enrollments' = enrollments
      ]_vars

\* C10: remove_event_organizer on an id that is missing, or whose user is
\* not an event_organizer, raises NotFound (ValueError) and leaves the users
\* table unchanged; every user it deletes has role event_organizer.
C10_OrganizerRemovalValidated ==
    [][ result'.op = "remove_event_organizer" =>
          \A id \in UserIds :
            remove_event_organizer(id) =>
                /\ (\A u \in users : u.id = id => u.role # "event_organizer")
                      => (result'.out = "ValueError" /\ users' = users)
                /\ \A u \in users \ users' : u.role = "event_organizer"
      ]_vars

\* C11: after a user is deleted, none of the Enrollment rows that user held
\* remains: every event's row count drops by the number of rows the deleted
\* user held in it, so those rows no longer count toward its capacity.
C11_DeleteCascades ==
    [][ result'.op = "remove_event_organizer" =>
          \A id \in UserIds :
            ( /\ remove_event_organizer(id)
              /\ \E u \in users : u.id = id
              /\ ~ \E u \in users' : u.id = id )
                => \A e \in StoredEventIds :
                      EnrollmentCount(e)' =
                          EnrollmentCount(e) - enrollments[<<id, e>>]
      ]_vars

\* C12: POST /events/ by a caller whose role is admin or event_organizer,
\* with no stored event in the payload's (venue, room, date), appends the
\* event with organizer_id the caller's id and returns it; by a caller of any
\* other role it answers Forbidden and the events table is unchanged.
C12_CreateEventRoleGate ==
    [][ result'.op = "main.create_event" =>
          \A u \in users, d \in EventCreate :
            main_create_event(d, u) =>
                IF u.role \in {"admin", "event_organizer"}
                THEN (~ \E e \in StoredEventIds : SameSlot(events[e], d))
                        => /\ result'.out = "Event"
                           /\ events' = Append(events, EventRow(Len(events) + 1, d, u.id))
                ELSE result'.out = "HTTP403" /\ events' = events
      ]_vars

\* The endpoints open to admins only.
AdminOnlyOps == {"list_events", "list_all_users", "remove_event_organizer"}

\* C13: listing all events, listing all users and removing an organizer are
\* performed only for a caller whose role is admin: for a caller of any other
\* role the answer is Forbidden and nothing is changed, so no user is
\* deleted; while no admin is signed up, every such call is Forbidden.
C13_AdminOnlyActions ==
    [][ result'.op \in AdminOnlyOps =>
          /\ \A u \in users :
                ( /\ u.role # "admin"
                  /\ \/ main_list_events(u)
                     \/ main_list_all_users(u)
                     \/ \E id \in UserIds : main_remove_event_organizer(id, u) )
                    => /\ result'.out = "HTTP403"
                       /\ UNCHANGED <<users, events, enrollments>>
          /\ (\A u \in users : u.role # "admin")
                => /\ result'.out = "HTTP403"
                   /\ UNCHANGED <<users, events, enrollments>>
      ]_vars

\* An organizer removal was answered Forbidden while an event organizer is
\* signed up and no admin is.
C13_Witness ==
    /\ result = Out("remove_event_organizer", "HTTP403")
    /\ \E u \in users : u.role = "event_organizer"
    /\ \A u \in users : u.role # "admin"

\* C14: enroll_user reports a full event and a schedule conflict as
\* different rejection outcomes (the kinds EventFull and ScheduleConflict),
\* and an enrollment that is over capacity, in schedule conflict or not, is
\* reported as the capacity one.
C14_DistinctRejectionKinds ==
    [][ \A r \in ReqIds :
          /\ (EnrollReadEvent(r) /\ reqs' = reqs
                /\ result'.out # "AttributeError")
                => result'.out = "EventFull"
          /\ (EnrollReadUser(r) /\ reqs'[r].pc = "idle")
                => result'.out = "ScheduleConflict"
      ]_vars

\* C14, as the code has it: a full event and a schedule conflict are
\* reported as the same rejection outcome, None, and neither adds a row; the
\* capacity gate comes first: a request goes on to the conflict gate only
\* when the event had room, and on to the insert only from the conflict gate
\* when the user held no row in an event of that date.
C14_SameRejectionInGateOrder ==
    [][ \A r \in ReqIds :
          /\ (EnrollReadEvent(r) /\ reqs' = reqs
                /\ result'.out # "AttributeError")
                => /\ result' = Out("enroll_user", "None")
                   /\ enrollments' = enrollments
                   /\ \E e \in StoredEventIds :
                         EnrollmentCount(e) >= events[e].max_pax
          /\ (reqs[r].pc = "idle" /\ reqs'[r].pc # "idle")
                => /\ reqs'[r].pc = "capacity_ok"
                   /\ EnrollmentCount(reqs'[r].event_id)
                          < events[reqs'[r].event_id].max_pax
          /\ (reqs[r].pc = "capacity_ok" /\ reqs'[r].pc = "idle")
                => /\ result' = Out("enroll_user", "None")
                   /\ enrollments' = enrollments
                   /\ HoldsDate(reqs[r].user_id, reqs[r].date)
          /\ (reqs[r].pc # "conflict_ok" /\ reqs'[r].pc = "conflict_ok")
                => /\ reqs[r].pc = "capacity_ok"
                   /\ ~ HoldsDate(reqs[r].user_id, reqs[r].date)
      ]_vars

\* An enrollment was rejected with None while the only event is full and
\* every user holds a row in it: a request for it is over capacity and in
\* schedule conflict at once.
C14_Witness ==
    /\ result = Out("enroll_user", "None")
    /\ Len(events) = 1
    /\ events[1].max_pax = 2
    /\ \A u \in users : enrollments[<<u.id, 1>>] = 1
    /\ \A r \in ReqIds : reqs[r].pc = "idle"

\* C15: a signup whose email is the email of a stored user is rejected with
\* 400 "Email already registered" and the users table is unchanged; any other
\* signup adds one user with that email; and no two stored users ever have
\* the same email.
C15_EmailUnique ==
    [][ /\ result'.op = "signup_user" =>
              \A user \in UserCreate :
                main_signup_user(user) =>
                    IF \E u \in users : u.email = user.email
                    THEN result'.out = "HTTP400" /\ users' = users
                    ELSE /\ result'.out = "User"
                         /\ Cardinality(users') = Cardinality(users) + 1
                         /\ users \subseteq users'
                         /\ \A u \in users' \ users :
                               u.email = user.email /\ u.role = user.role
        /\ \A u1, u2 \in users' : u1.email = u2.email => u1 = u2
      ]_vars

\* A signup was rejected while the only stored user has the email that two
\* of the payloads carry.
C15_Witness ==
    /\ result = Out("signup_user", "HTTP400")
    /\ Cardinality(users) = 1
    /\ \A u \in users : u.email = "b@example.com"

\* C16: unenroll_from_event(event, user) with no Enrollment row matching
\* both ids fails with NotFound (ValueError) and leaves the enrollments
\* unchanged; otherwise it removes exactly one row matching both ids and
\* changes no row of any other user or event.
C16_Unenrollment ==
    [][ result'.op = "unenroll_from_event" =>
          \A u \in UserIds, e \in RequestEventIds :
            unenroll_from_event(e, u) =>
                IF e \in EventIds /\ enrollments[<<u, e>>] > 0
                THEN /\ result'.out = "Enrollment"
                     /\ enrollments'[<<u, e>>] = enrollments[<<u, e>>] - 1
                     /\ \A k \in EnrollKeys \ {<<u, e>>} :
                            enrollments'[k] = enrollments[k]
                ELSE /\ result'.out = "ValueError"
                     /\ enrollments' = enrollments
      ]_vars

\* An unenrollment succeeded and left the only event with one of its two
\* rows: the row of the other user is still there.
C16_Witness ==
    /\ result = Out("unenroll_from_event", "Enrollment")
    /\ Len(events) = 1
    /\ events[1].max_pax = 2
    /\ EnrollmentCount(1) = 1

\* C17: update_event by a caller who is not an admin succeeds only if the
\* caller is the event's organizer and the event's date is strictly later
\* than the current time; the organizer's update of an event whose date
\* equals the current time is rejected as Forbidden (PermissionError).
C17_StrictlyFuture ==
    [][ result'.op = "update_event" =>
          \A u \in users, e \in StoredEventIds, d \in EventCreate :
            (u.role # "admin" /\ update_event(e, d, u)) =>
                /\ result'.out = "Event"
                      => (u.id = events[e].organizer_id /\ events[e].date > now)
                /\ (u.id = events[e].organizer_id /\ events[e].date = now)
                      => result'.out = "PermissionError"
      ]_vars

\* C18: when an event was full (as many rows as max_pax) and an enrolled
\* user unenrolled from it, the next enroll_user for that event by a user
\* holding no row in an event of the same date succeeds; and a successful
\* enroll_user followed by unenroll_from_event of the same (user, event)
\* succeeds and leaves the enrollments as they were before the enroll_user.
C18_UnenrollFreesSlot ==
    [][ /\ (last.op = "unenroll_from_event" /\ result'.op = "enroll_user") =>
              \A u \in UserIds :
                ( /\ enroll_user(u, last.event_id)
                  /\ SumOver(last.before,
                             {k \in EnrollKeys : k[2] = last.event_id})
                        = events[last.event_id].max_pax
                  /\ ~ HoldsDate(u, events[last.event_id].date) )
                    => /\ result'.out = "Enrollment"
                       /\ enrollments'[<<u, last.event_id>>] = 1
        /\ (last.op = "enroll_user" /\ result'.op = "unenroll_from_event") =>
              ( unenroll_from_event(last.event_id, last.user_id)
                    => /\ result'.out = "Enrollment"
                       /\ enrollments' = last.before )
      ]_vars

\* A user has unenrolled from the only event, which was full with that
\* user's row (max_pax 1) and has a free place again: the enroll_user and the
\* unenroll_from_event of one (user, event) have followed each other.
C18_Witness ==
    /\ last.op = "unenroll_from_event"
    /\ result = Out("unenroll_from_event", "Enrollment")
    /\ Len(events) = 1
    /\ events[1].max_pax = 1
    /\ last.before[<<last.user_id, 1>>] = 1
    /\ EnrollmentCount(1) = 0

\* C19: with create_event requests for the same (venue, room, date)
\* interleaved, each a conflict query followed by a separate insert, at most
\* one of them stores an Event: no insert adds an event in a (venue, room,
\* date) that a stored event has, so no two stored events share one.
C19_ConcurrentCreateUnique ==
    [][ /\ \A r \in ReqIds :
              CreateEventInsert(r) =>
                  ~ \E e \in StoredEventIds :
                        SameSlot(events[e], reqs[r].event_data)
        /\ \A e1 \in 1..Len(events') : \A e2 \in 1..Len(events') :
              SameSlot(events'[e1], events'[e2]) => e1 = e2
      ]_vars

\* C20: with two enroll_user requests of one user in flight at once, for one
\* event or for two events of equal date, each with its conflict query and
\* its insert as separate steps, at most one succeeds: no insert adds a row
\* for a user who holds a row in an event of that date, so a user never
\* holds two rows in one event nor rows in two events of equal date.
C20_ConcurrentEnrollOneUser ==
    [][ /\ \A r \in ReqIds :
              EnrollInsert(r) => ~ HoldsDate(reqs[r].user_id, reqs[r].date)
        /\ \A u \in UserIds : \A e1 \in StoredEventIds :
              /\ enrollments'[<<u, e1>>] <= 1
              /\ \A e2 \in StoredEventIds \ {e1} :
                    (enrollments'[<<u, e1>>] > 0 /\ enrollments'[<<u, e2>>] > 0)
                        => events[e1].date # events[e2].date
      ]_vars

\* C21: a token issued at login to an account only ever resolves
\* (get_current_user) to that account's user record; once the account is
\* deleted the token is rejected as unauthenticated (401) in every later
\* state, also after a new account is signed up with the same email.
C21_TokenIdentity ==
    [][ result'.op = "get_current_user" =>
          \A t \in tokens :
            main_get_current_user(t.token) =>
                /\ t.deleted => result'.out = "HTTP401"
                /\ result'.out = "User"
                      => get_current_user(t.token).id = t.account
      ]_vars
====
